---- MODULE Spec2Model ----
(***************************************************************************)
(* Transcription orchestration of scripts/transcriber.py: duration probe,  *)
(* route dispatch, the FAST, SEGMENTED and PARALLEL routes, the worker     *)
(* pool of the PARALLEL route and the transcript writer.                   *)
(*                                                                         *)
(* Times are integers counted in ticks of 0.1 ms (Sec ticks per second).   *)
(* Texts are sequences of tokens; the token " " is white space.            *)
(* The recognition engine, ffmpeg, ffprobe, rm and the file system are     *)
(* external: their outcomes are nondeterministic choices.  Loading the     *)
(* engine (whisper.load_model) is taken to succeed.                        *)
(*                                                                         *)
(* Spec is a run of transcribe_auto, transcribe_segmented_fast or          *)
(* transcribe_parallel.  WriterSpec is _write_transcript_files called on   *)
(* its own, once or repeatedly.  PureSpec applies one helper (_fmt_srt,    *)
(* the base name, the sorted glob of segment files) to one argument.       *)
(* MainSpec is the entry point of main.py, each pipeline step one step.    *)
(***************************************************************************)
EXTENDS Integers, Sequences, FiniteSets, TLC

\* ---- configuration (transcriber.py, CONFIG block) ----
CHUNK_LEN == 30
SEGMENT_LEN == 300
MAX_WORKERS == 4
FAST_THRESHOLD == 120

\* ---- resolution of the float seconds of the source: ticks per second ----
Sec == 10 * 1000

\* ---- bounds of the model ----
MaxSegs == 3
MaxCpu == 2

\* segment_len values given to transcribe_segmented_fast
SegmentLens == {SEGMENT_LEN, 100}

\* thresholds given to transcribe_auto, in ticks
Thresholds == {0, FAST_THRESHOLD * Sec}

\* durations ffprobe reports, in ticks
Durations == {0, FAST_THRESHOLD * Sec, FAST_THRESHOLD * Sec + 1}

SegIdx == 0 .. (MaxSegs - 1)

\* longest chunk list handed to the writer on its own, and how often the
\* caller runs the writer again on the same arguments
MaxChunks == 2
MaxReruns == 2

\* times handed to _fmt_srt on its own: MaxTick ticks from each base time
MaxTick == 19

\* longest source file name (characters)
MaxName == 3

Min2(a, b) == IF a <= b THEN a ELSE b

\* ---- texts ----
RECURSIVE LStrip(_)
LStrip(t) == IF t # << >> /\ Head(t) = " " THEN LStrip(Tail(t)) ELSE t

RECURSIVE RStrip(_)
RStrip(t) ==
    IF t # << >> /\ t[Len(t)] = " " THEN RStrip(SubSeq(t, 1, Len(t) - 1)) ELSE t

\* str.strip()
Strip(t) == RStrip(LStrip(t))

\* ---- what the recognition engine may return for one audio file ----
Span(s, e, t) == [start |-> s, end |-> e, text |-> t]

EngineResults ==
    { [text |-> << >>, segments |-> << >>],
      [text |-> <<" ", "hello">>,
       segments |-> << Span(1 * Sec, 2 * Sec, <<" ", "hello">>) >>],
      [text |-> <<" ", "a", " ", "b", " ">>,
       segments |-> << Span(0, 1 * Sec, <<"a", " ">>),
                       Span(29 * Sec, 30 * Sec, <<" ", "b">>) >>],
      [text |-> <<"c", " ", "a">>,
       segments |-> << Span(31 * Sec, 32 * Sec, <<"c">>),
                       Span(0, 1 * Sec, <<"a">>) >>] }

\* a recognition call that raised, as recorded in the call history
Raised == [text |-> <<"!">>, segments |-> << >>]

VARIABLES
    entry,        \* the function the caller invoked
    threshold,    \* transcribe_auto's threshold, ticks
    segment_len,  \* segment length of the route, seconds
    pc,           \* position of the orchestrating process
    outcome,      \* "running", "returned" or "raised"
    dur,          \* value of get_duration, ticks (-1: not probed)
    route,        \* "NONE", "FAST", "SEGMENTED", "PARALLEL"
    ws,           \* temporary workspace: "none", "exists", "deleted"
    nseg,         \* len(segment_paths) / len(files) (-1: not split)
    idx,          \* loop variable of transcribe_segmented_fast (1-based)
    merged,       \* the dict under construction / returned
    recog,        \* per segment: the outcomes of the engine calls on it
    txt,          \* transcripts/<base>.txt
    srt,          \* transcripts/<base>.srt
    pool,         \* "none", "running", "terminated"
    nworkers,     \* size of the pool
    wst,          \* per worker: state, task and progress
    taskq,        \* task batches not yet taken by a worker
    value,        \* MapResult._value: per job the worker's result
    number_left,  \* MapResult._number_left
    success,      \* MapResult._success
    inverted,     \* some job's call returned before a lower job's call
    probe,        \* what ffprobe did: "none", "numeric", "missing",
                  \* "nonnumeric", "notjson", "nonzero"
    whole,        \* the outcomes of the engine calls on the whole file
    split_len,    \* the -segment_time given to ffmpeg, seconds (0: not run)
    model,        \* per worker process: the engine its global `model` names
                  \* (0: none; w: the instance worker w loaded)
    took,         \* the workers that were handed at least one task batch
    foreign,      \* a recognition call used an engine not loaded by its worker
    rerun,        \* how many times the caller ran the writer again
    snap,         \* the two artifacts as the first completed writer run left them
    fn,           \* the helper a caller applies on its own ("none": no helper)
    arg,          \* its argument
    res,          \* its result, once applied
    applied,      \* the helper has returned
    call,         \* which call of main() the entry point is in (0: none)
    step,         \* position of the entry point inside main(), or how it ended
    ran,          \* per pipeline step: how many times it was started
    wrote,        \* per pipeline step: how many times it wrote its artifacts
    audio_path,   \* args.audio_path
    base          \* main's base name for the analysis and summary files

vars == << entry, threshold, segment_len, pc, outcome, dur, route, ws, nseg,
           idx, merged, recog, txt, srt, pool, nworkers, wst, taskq, value,
           number_left, success, inverted, probe, whole, split_len, model,
           took, foreign, rerun, snap, fn, arg, res, applied, call, step,
           ran, wrote, audio_path, base >>

helper == << fn, arg, res, applied >>
mainvars == << call, step, ran, wrote, audio_path, base >>
ctl == << entry, threshold, rerun, snap, helper, mainvars >>
engine == << whole, split_len >>
poolvars == << pool, nworkers, wst, taskq, value, number_left, success,
               inverted >>
files == << txt, srt >>
engines == << model, took, foreign >>

Workers == 1 .. Min2(MAX_WORKERS, MaxCpu)

NoResult == [chunks |-> << >>, done |-> FALSE]
IdleWorker == [st |-> "off", lo |-> 0, hi |-> 0, cur |-> 0, acc |-> << >>]

AbsentFile == [st |-> "absent", body |-> << >>]
OldFile == [st |-> "old", body |-> << >>]
NoSnap == [txt |-> AbsentFile, srt |-> AbsentFile]

\* the pipeline steps of main(), in program order
MainSteps ==
    <<"transcription", "analysis", "summary", "visualization",
      "word_frequency">>

StepNames == {MainSteps[i] : i \in 1 .. Len(MainSteps)}

\* the entry point of main.py is not running
MainIdle ==
    /\ call = 0
    /\ step = "off"
    /\ ran = [s \in StepNames |-> 0]
    /\ wrote = [s \in StepNames |-> 0]
    /\ audio_path = << >>
    /\ base = << >>

Init ==
    /\ entry \in {"auto", "segmented", "parallel"}
    /\ threshold \in IF entry = "auto" THEN Thresholds
                     ELSE {FAST_THRESHOLD * Sec}
    /\ segment_len \in
          CASE entry = "auto" -> {SEGMENT_LEN}
            [] entry = "segmented" -> SegmentLens
            [] OTHER -> {CHUNK_LEN}
    /\ pc = CASE entry = "auto" -> "auto_probe"
              [] entry = "segmented" -> "seg_split"
              [] OTHER -> "par_split"
    /\ outcome = "running"
    /\ dur = -1
    /\ route = CASE entry = "auto" -> "NONE"
                 [] entry = "segmented" -> "SEGMENTED"
                 [] OTHER -> "PARALLEL"
    /\ ws = "none"
    /\ nseg = -1
    /\ idx = 0
    /\ merged = [chunks |-> << >>]
    /\ recog = [i \in SegIdx |-> << >>]
    /\ \E f \in {AbsentFile, OldFile} : txt = f /\ srt = f
    /\ pool = "none"
    /\ nworkers = 0
    /\ wst = [w \in Workers |-> IdleWorker]
    /\ taskq = << >>
    /\ value = [i \in SegIdx |-> NoResult]
    /\ number_left = 0
    /\ success = TRUE
    /\ inverted = FALSE
    /\ probe = "none"
    /\ whole = << >>
    /\ split_len = 0
    /\ model = [w \in Workers |-> 0]
    /\ took = {}
    /\ foreign = FALSE
    /\ rerun = 0
    /\ snap = NoSnap
    /\ fn = "none" /\ arg = 0 /\ res = 0 /\ applied = FALSE
    /\ MainIdle

\* an exception leaves the function: nothing after the raise is executed
Raise ==
    /\ pc' = "done"
    /\ outcome' = "raised"

\* ---- get_duration ----
\* ffprobe exits 0 and prints a numeric duration
GetDuration ==
    /\ pc = "auto_probe"
    /\ \E d \in Durations : dur' = d
    /\ pc' = "auto_dispatch"
    /\ probe' = "numeric"
    /\ UNCHANGED << ctl, engines, engine, segment_len, outcome, route, ws, nseg, idx,
                    merged, recog, files, poolvars >>

\* ffprobe output {"format": {}} or {}: .get(..., 0.0)
GetDurationMissing ==
    /\ pc = "auto_probe"
    /\ dur' = 0
    /\ pc' = "auto_dispatch"
    /\ probe' = "missing"
    /\ UNCHANGED << ctl, engines, engine, segment_len, outcome, route, ws, nseg, idx,
                    merged, recog, files, poolvars >>

\* mutant: a non-zero exit of ffprobe is swallowed and 0.0 is returned
GetDurationFail_tolerant ==
    /\ pc = "auto_probe"
    /\ probe' \in {"nonzero", "notjson", "nonnumeric"}
    /\ IF probe' = "nonzero"
       THEN dur' = 0 /\ pc' = "auto_dispatch" /\ UNCHANGED outcome
       ELSE Raise /\ UNCHANGED dur
    /\ UNCHANGED << ctl, engines, engine, segment_len, route, ws, nseg, idx, merged,
                    recog, files, poolvars >>

\* check_output raises on a non-zero exit, json.loads on output that is not
\* JSON, float() on a duration that is not numeric (such as "N/A")
GetDurationFail ==
    /\ pc = "auto_probe"
    /\ Raise
    /\ probe' \in {"nonzero", "notjson", "nonnumeric"}
    /\ UNCHANGED << ctl, engines, engine, segment_len, dur, route, ws, nseg, idx,
                    merged, recog, files, poolvars >>

\* ---- transcribe_auto ----
\* mutant: the boundary is exclusive
select_route_exclusive(d, t) == IF d < t THEN "FAST" ELSE "SEGMENTED"

select_route(d, t) == IF d <= t THEN "FAST" ELSE "SEGMENTED"

TranscribeAuto ==
    /\ pc = "auto_dispatch"
    /\ route' = select_route(dur, threshold)
    /\ pc' = IF route' = "FAST" THEN "fast_transcribe" ELSE "seg_split"
    /\ UNCHANGED << ctl, engines, probe, engine, segment_len, outcome, dur, ws, nseg,
                    idx, merged, recog, files, poolvars >>

\* ---- transcribe_fast ----
FastChunks(r) ==
    [k \in 1 .. Len(r.segments) |->
        [start |-> r.segments[k].start,
         end |-> r.segments[k].end,
         text |-> Strip(r.segments[k].text)]]

TranscribeFast ==
    /\ pc = "fast_transcribe"
    /\ \E r \in EngineResults :
          /\ merged' = [text |-> Strip(r.text), chunks |-> FastChunks(r)]
          /\ whole' = Append(whole, r)
    /\ pc' = "w_txt"
    /\ UNCHANGED << ctl, engines, probe, split_len, segment_len, outcome, dur, route,
                    ws, nseg, idx, recog, files, poolvars >>

TranscribeFastFail ==
    /\ pc = "fast_transcribe"
    /\ Raise
    /\ whole' = Append(whole, Raised)
    /\ UNCHANGED << ctl, engines, probe, split_len, segment_len, dur, route, ws, nseg,
                    idx, merged, recog, files, poolvars >>

\* ---- _write_transcript_files ----
\* value of prev_end when the loop reaches chunk k (1-based here)
\* mutant: the gap is measured from the previous chunk's start
prev_end_start(chunks, k) == IF k = 1 THEN 0 ELSE chunks[k - 1].start

prev_end(chunks, k) == IF k = 1 THEN 0 ELSE chunks[k - 1].end

silence_gaps(chunks) ==
    [k \in 1 .. Len(chunks) |-> chunks[k].start - prev_end(chunks, k)]

\* "{x:.2f}": hundredths of a second, nearest
Fmt2(x) ==
    IF x >= 0 THEN (x * 100 + Sec \div 2) \div Sec
    ELSE 0 - (((0 - x) * 100 + Sec \div 2) \div Sec)

\* int(t) of a float of seconds: truncation toward zero
IntSec(t) == IF t >= 0 THEN t \div Sec ELSE 0 - ((0 - t) \div Sec)

\* mutant: the milliseconds are rounded to the nearest, ties up
_fmt_srt_round(t) ==
    [h |-> t \div (3600 * Sec),
     m |-> (t % (3600 * Sec)) \div (60 * Sec),
     s |-> (t % (60 * Sec)) \div Sec,
     ms |-> ((t - IntSec(t) * Sec) * 1000 + Sec \div 2) \div Sec]

_fmt_srt(t) ==
    [h |-> t \div (3600 * Sec),
     m |-> (t % (3600 * Sec)) \div (60 * Sec),
     s |-> (t % (60 * Sec)) \div Sec,
     ms |-> ((t - IntSec(t) * Sec) * 1000) \div Sec]

DebugLine(chunks, k) ==
    [kind |-> "debug", idx |-> k - 1,
     start |-> Fmt2(chunks[k].start),
     prev_end |-> Fmt2(prev_end(chunks, k)),
     gap |-> Fmt2(silence_gaps(chunks)[k])]

TranscriptLine(chunks, k) ==
    [kind |-> "line",
     m0 |-> IntSec(chunks[k].start) \div 60,
     s0 |-> IntSec(chunks[k].start) % 60,
     m1 |-> IntSec(chunks[k].end) \div 60, s1 |-> IntSec(chunks[k].end) % 60,
     silence |-> Fmt2(silence_gaps(chunks)[k]),
     text |-> Strip(chunks[k].text)]

\* the lines of the .txt artifact after its two fixed header lines
TxtBody(m) ==
    [k \in 1 .. Len(m.chunks) |-> DebugLine(m.chunks, k)]
    \o [k \in 1 .. Len(m.chunks) |-> TranscriptLine(m.chunks, k)]

\* the entries of the .srt artifact
SrtBody(m) ==
    [k \in 1 .. Len(m.chunks) |->
        [n |-> k,
         start |-> _fmt_srt(m.chunks[k].start),
         end |-> _fmt_srt(m.chunks[k].end),
         text |-> Strip(m.chunks[k].text)]]

\* mutant: the file is opened for appending
WriteTxt_append ==
    /\ pc = "w_txt"
    /\ txt' = [st |-> "written", body |-> txt.body \o TxtBody(merged)]
    /\ pc' = "w_srt"
    /\ UNCHANGED << ctl, engines, probe, engine, segment_len, outcome, dur, route, ws,
                    nseg, idx, merged, recog, srt, poolvars >>

\* open(txt_file, "w") ... : the file is truncated and written whole
WriteTxt ==
    /\ pc = "w_txt"
    /\ txt' = [st |-> "written", body |-> TxtBody(merged)]
    /\ pc' = "w_srt"
    /\ UNCHANGED << ctl, engines, probe, engine, segment_len, outcome, dur, route, ws,
                    nseg, idx, merged, recog, srt, poolvars >>

\* mkdir or open raises (file untouched), or a write raises after the
\* file was truncated (a prefix of the lines is left)
WriteTxtFail ==
    /\ pc = "w_txt"
    /\ \/ txt' = txt
       \/ \E k \in 0 .. Len(TxtBody(merged)) :
             txt' = [st |-> "partial", body |-> SubSeq(TxtBody(merged), 1, k)]
    /\ Raise
    /\ UNCHANGED << ctl, engines, probe, engine, segment_len, dur, route, ws, nseg,
                    idx, merged, recog, srt, poolvars >>

\* open(srt_file, "w") ... ; then the function and its caller return merged
WriteSrt ==
    /\ pc = "w_srt"
    /\ srt' = [st |-> "written", body |-> SrtBody(merged)]
    /\ pc' = "done"
    /\ outcome' = "returned"
    /\ UNCHANGED << ctl, engines, probe, engine, segment_len, dur, route, ws, nseg,
                    idx, merged, recog, txt, poolvars >>

WriteSrtFail ==
    /\ pc = "w_srt"
    /\ \/ srt' = srt
       \/ \E k \in 0 .. Len(SrtBody(merged)) :
             srt' = [st |-> "partial", body |-> SubSeq(SrtBody(merged), 1, k)]
    /\ Raise
    /\ UNCHANGED << ctl, engines, probe, engine, segment_len, dur, route, ws, nseg,
                    idx, merged, recog, txt, poolvars >>

\* ---- _write_transcript_files called on its own ----
\* merged transcripts a caller can hand to the writer: chunks with a gap,
\* an overlap, padded text and sub-second times
WriterChunks ==
    {Span(0, 2 * Sec, <<"a">>), Span(5 * Sec, 6 * Sec, <<"b">>),
     Span(Sec, 3 * Sec, <<" ", "c", " ">>), Span(599995, 612345, <<"d">>)}

ChunkSeqs == UNION {[1 .. n -> WriterChunks] : n \in 0 .. MaxChunks}

WriterInit ==
    /\ entry = "writer"
    /\ threshold = FAST_THRESHOLD * Sec
    /\ segment_len = SEGMENT_LEN
    /\ pc = "w_txt"
    /\ outcome = "running"
    /\ dur = -1
    /\ route = "NONE"
    /\ ws = "none"
    /\ nseg = -1
    /\ idx = 0
    /\ \E c \in ChunkSeqs : merged = [chunks |-> c]
    /\ recog = [i \in SegIdx |-> << >>]
    /\ \E f \in {AbsentFile, OldFile} : txt = f /\ srt = f
    /\ pool = "none"
    /\ nworkers = 0
    /\ wst = [w \in Workers |-> IdleWorker]
    /\ taskq = << >>
    /\ value = [i \in SegIdx |-> NoResult]
    /\ number_left = 0
    /\ success = TRUE
    /\ inverted = FALSE
    /\ probe = "none"
    /\ whole = << >>
    /\ split_len = 0
    /\ model = [w \in Workers |-> 0]
    /\ took = {}
    /\ foreign = FALSE
    /\ rerun = 0
    /\ snap = NoSnap
    /\ fn = "none" /\ arg = 0 /\ res = 0 /\ applied = FALSE
    /\ MainIdle

\* the caller calls the writer again with the same input path and the same
\* merged transcript, after a call that returned or raised
WriteAgain ==
    /\ entry = "writer"
    /\ pc = "done"
    /\ rerun < MaxReruns
    /\ rerun' = rerun + 1
    /\ snap' = IF outcome = "returned" /\ snap = NoSnap
               THEN [txt |-> txt, srt |-> srt] ELSE snap
    /\ pc' = "w_txt"
    /\ outcome' = "running"
    /\ UNCHANGED << entry, threshold, helper, mainvars, engines, probe,
                    engine, segment_len, dur, route, ws, nseg, idx, merged, recog,
                    files, poolvars >>

WriterNext ==
    \/ WriteTxt
    \/ WriteTxtFail
    \/ WriteSrt
    \/ WriteSrtFail
    \/ WriteAgain

WriterSpec == WriterInit /\ [][WriterNext]_vars

\* ---- helpers applied on their own ----
\* the run is not started: every variable of the run keeps its idle value
RunIdle ==
    /\ threshold = FAST_THRESHOLD * Sec
    /\ segment_len = SEGMENT_LEN
    /\ pc = "off"
    /\ outcome = "running"
    /\ dur = -1
    /\ route = "NONE"
    /\ ws = "none"
    /\ nseg = -1
    /\ idx = 0
    /\ merged = [chunks |-> << >>]
    /\ recog = [i \in SegIdx |-> << >>]
    /\ txt = AbsentFile /\ srt = AbsentFile
    /\ pool = "none"
    /\ nworkers = 0
    /\ wst = [w \in Workers |-> IdleWorker]
    /\ taskq = << >>
    /\ value = [i \in SegIdx |-> NoResult]
    /\ number_left = 0
    /\ success = TRUE
    /\ inverted = FALSE
    /\ probe = "none"
    /\ whole = << >>
    /\ split_len = 0
    /\ model = [w \in Workers |-> 0]
    /\ took = {}
    /\ foreign = FALSE
    /\ rerun = 0
    /\ snap = NoSnap

runvars == << segment_len, pc, outcome, dur, route, ws, nseg, idx, merged,
              recog, files, poolvars, probe, engine, engines >>

\* the values of the floats handed to _fmt_srt, in ticks: times around 0,
\* 59.999 s, 125.4 s, 3599.999 s and 59 h, on both sides of a millisecond and
\* of a second (ticks of 100 h do not fit the integers of the checker)
FmtTimes ==
    {b + d : b \in {0, 59 * Sec + 9985, 125 * Sec + 3985,
                    3599 * Sec + 9985, (59 * 3600 - 1) * Sec + 9985},
             d \in 0 .. MaxTick}

\* the caller's call of _fmt_srt(start) / _fmt_srt(end) returns
ApplyFmtSrt ==
    /\ fn = "fmt"
    /\ ~applied
    /\ res' = _fmt_srt(arg)
    /\ applied' = TRUE
    /\ UNCHANGED << entry, threshold, rerun, snap, fn, arg, mainvars,
                    runvars >>

\* -- the base name of the artifacts --
\* 0 when c does not occur in p
LastIndexOf(p, c) ==
    LET I == {i \in 1 .. Len(p) : p[i] = c}
    IN  IF I = {} THEN 0 ELSE CHOOSE i \in I : \A j \in I : j <= i

\* os.path.basename(p), and Path(p).name of a path that does not end in a
\* slash and whose last component is not made of dots only
basename(p) == SubSeq(p, LastIndexOf(p, "/") + 1, Len(p))

\* PurePath.stem of a final component: cut at the last dot unless it is the
\* first or the last character
stem(name) ==
    LET i == LastIndexOf(name, ".")
    IN  IF 1 < i /\ i < Len(name) THEN SubSeq(name, 1, i - 1) ELSE name

\* os.path.splitext(name)[0]: cut at the last dot unless only dots precede it
splitext_root(name) ==
    LET i == LastIndexOf(name, ".")
    IN  IF \E j \in 1 .. (i - 1) : name[j] # "."
        THEN SubSeq(name, 1, i - 1) ELSE name

\* str.replace(" ", "_")
replace_spaces(t) == [k \in 1 .. Len(t) |-> IF t[k] = " " THEN "_" ELSE t[k]]

\* base of _write_transcript_files: Path(input_path).stem
WriterBase(p) == stem(basename(p))

\* base of main(): splitext(basename(audio_path))[0].replace(" ", "_")
MainBase(p) == replace_spaces(splitext_root(basename(p)))

FileNames ==
    {n \in UNION {[1 .. k -> {"a", " ", ".", "_"}] : k \in 1 .. MaxName} :
        \E j \in 1 .. Len(n) : n[j] # "."}

Paths == {d \o n : d \in {<< >>, <<"d", "/">>}, n \in FileNames}

\* both callers derive the base of their output files from the same path
ApplyBase ==
    /\ fn = "base"
    /\ ~applied
    /\ res' = [writer |-> WriterBase(arg), main |-> MainBase(arg)]
    /\ applied' = TRUE
    /\ UNCHANGED << entry, threshold, rerun, snap, fn, arg, mainvars,
                    runvars >>

\* -- the sorted glob of the segment files --
RECURSIVE DigitsOf(_)
DigitsOf(i) ==
    IF i < 10 THEN << 48 + i >> ELSE Append(DigitsOf(i \div 10), 48 + (i % 10))

\* "%03d" % i, as character codes
Pad3(i) ==
    LET d == DigitsOf(i)
    IN  IF Len(d) >= 3 THEN d ELSE [k \in 1 .. (3 - Len(d)) |-> 48] \o d

\* the part of chunk_%03d.wav that differs between segments: the number and
\* the dot after it (code 46), as character codes
SegName(i) == Append(Pad3(i), 46)

\* a < b for Python strings
StrLess(a, b) ==
    LET D == {k \in 1 .. Min2(Len(a), Len(b)) : a[k] # b[k]}
    IN  IF D = {} THEN Len(a) < Len(b)
        ELSE LET k == CHOOSE x \in D : \A y \in D : x <= y IN a[k] < b[k]

\* sorted(glob.glob(".../chunk_*.wav")) when ffmpeg wrote segments 0 .. n-1
sorted_glob(n) == SortSeq([i \in 1 .. n |-> SegName(i - 1)], StrLess)

SegCounts == {1, 2, 10, 11, 100, 101, 999, 1000, 1001}

ApplySortedGlob ==
    /\ fn = "sorted"
    /\ ~applied
    /\ res' = sorted_glob(arg)
    /\ applied' = TRUE
    /\ UNCHANGED << entry, threshold, rerun, snap, fn, arg, mainvars,
                    runvars >>

PureInit ==
    /\ entry = "helper"
    /\ RunIdle
    /\ \/ fn = "fmt" /\ arg \in FmtTimes
       \/ fn = "base" /\ arg \in Paths
       \/ fn = "sorted" /\ arg \in SegCounts
    /\ res = 0
    /\ applied = FALSE
    /\ MainIdle

PureNext ==
    \/ ApplyFmtSrt
    \/ ApplyBase
    \/ ApplySortedGlob

PureSpec == PureInit /\ [][PureNext]_vars

\* ---- main.py: main() and the entry point ----
StepNo(st) == CHOOSE i \in 1 .. Len(MainSteps) : MainSteps[i] = st

\* where main() goes after a step that returned
AfterStep(st) ==
    IF StepNo(st) = Len(MainSteps) THEN "return" ELSE MainSteps[StepNo(st) + 1]

\* the first statement of the entry point: main() is called
MainInit ==
    /\ entry = "main"
    /\ RunIdle
    /\ fn = "none" /\ arg = 0 /\ res = 0 /\ applied = FALSE
    /\ call = 1
    /\ step = "parse_args"
    /\ ran = [s \in StepNames |-> 0]
    /\ wrote = [s \in StepNames |-> 0]
    /\ audio_path \in Paths
    /\ base = << >>

\* parse_args returns and the file exists
ParseArgs ==
    /\ step = "parse_args"
    /\ step' = "transcription"
    /\ UNCHANGED << entry, threshold, rerun, snap, helper, call, ran, wrote,
                    audio_path, base, runvars >>

\* the file is missing: parser.error raises SystemExit, which the except
\* clause of the entry point does not catch
ParseArgsError ==
    /\ step = "parse_args"
    /\ step' = "exit_usage"
    /\ UNCHANGED << entry, threshold, rerun, snap, helper, call, ran, wrote,
                    audio_path, base, runvars >>

\* a pipeline step runs, writes its artifacts and returns
RunStep(st) ==
    /\ step = st
    /\ ran' = [ran EXCEPT ![st] = @ + 1]
    /\ wrote' = [wrote EXCEPT ![st] = @ + 1]
    /\ step' = AfterStep(st)
    /\ base' = IF st = "transcription" THEN MainBase(audio_path) ELSE base
    /\ UNCHANGED << entry, threshold, rerun, snap, helper, call, audio_path,
                    runvars >>

MainTranscribe == RunStep("transcription")
MainAnalysis == RunStep("analysis")
MainSummary == RunStep("summary")
MainAnimateAnalysis == RunStep("visualization")
MainAnimateWordFrequency == RunStep("word_frequency")

\* a pipeline step raises: the first call of main() is not guarded and the
\* program ends with a traceback, the second is inside try/except and the
\* error is logged
MainStepRaises ==
    /\ step \in StepNames
    /\ ran' = [ran EXCEPT ![step] = @ + 1]
    /\ step' = IF call = 1 THEN "crashed" ELSE "exit_logged"
    /\ UNCHANGED << entry, threshold, rerun, snap, helper, call, wrote,
                    audio_path, base, runvars >>

\* main() returns: after the first call the entry point calls main() again,
\* after the second the program ends
MainReturn ==
    /\ step = "return"
    /\ IF call = 1
       THEN call' = 2 /\ step' = "parse_args"
       ELSE call' = call /\ step' = "exit_ok"
    /\ UNCHANGED << entry, threshold, rerun, snap, helper, ran, wrote,
                    audio_path, base, runvars >>

MainNext ==
    \/ ParseArgs
    \/ ParseArgsError
    \/ MainTranscribe
    \/ MainAnalysis
    \/ MainSummary
    \/ MainAnimateAnalysis
    \/ MainAnimateWordFrequency
    \/ MainStepRaises
    \/ MainReturn

MainSpec == MainInit /\ [][MainNext]_vars

\* ---- _segment_audio_file ----
\* makedirs creates the workspace, ffmpeg writes n segment files, the sorted
\* glob returns them; transcribe_segmented_fast then initialises its loop
SegmentAudioFile ==
    /\ pc = "seg_split"
    /\ ws' = "exists"
    /\ \E n \in 0 .. MaxSegs : nseg' = n
    /\ idx' = 1
    /\ merged' = [text |-> << >>, chunks |-> << >>]
    /\ pc' = "seg_loop"
    /\ split_len' = segment_len
    /\ UNCHANGED << ctl, engines, probe, whole, segment_len, outcome, dur, route,
                    recog, files, poolvars >>

\* makedirs raises (no workspace) or ffmpeg exits non-zero (check=True)
SegmentAudioFileFail ==
    /\ pc = "seg_split"
    /\ ws' \in {"none", "exists"}
    /\ Raise
    /\ split_len' \in {split_len, segment_len}
    /\ UNCHANGED << ctl, engines, probe, whole, segment_len, dur, route, nseg, idx,
                    merged, recog, files, poolvars >>

\* ---- transcribe_segmented_fast ----
\* mutant: the offset is taken from the 1-based loop variable
SegOffset_one_based(i, len) == i * len * Sec

SegOffset(i, len) == (i - 1) * len * Sec

\* mutant: a span that starts at the segment boundary is merged into the
\* previous segment's last chunk, i.e. not appended
Shift_boundary_merge(r, offset) ==
    LET keep == IF offset > 0 /\ r.segments # << >> /\ r.segments[1].start = 0
                THEN Tail(r.segments) ELSE r.segments
    IN [k \in 1 .. Len(keep) |->
           [start |-> keep[k].start + offset,
            end |-> keep[k].end + offset,
            text |-> Strip(keep[k].text)]]

Shift(r, offset) ==
    [k \in 1 .. Len(r.segments) |->
        [start |-> r.segments[k].start + offset,
         end |-> r.segments[k].end + offset,
         text |-> Strip(r.segments[k].text)]]

\* one iteration of the for loop
SegTranscribe ==
    /\ pc = "seg_loop"
    /\ idx <= nseg
    /\ \E r \in EngineResults :
          /\ merged' = [text |-> merged.text \o Strip(r.text) \o <<" ">>,
                        chunks |-> merged.chunks
                                   \o Shift(r, SegOffset(idx, segment_len))]
          /\ recog' = [recog EXCEPT ![idx - 1] = Append(@, r)]
    /\ idx' = idx + 1
    /\ UNCHANGED << ctl, engines, probe, engine, segment_len, pc, outcome, dur, route,
                    ws, nseg, files, poolvars >>

\* mutant: a failed recognition call is retried once before giving up
SegTranscribeFail_retry ==
    /\ pc = "seg_loop"
    /\ idx <= nseg
    /\ recog' = [recog EXCEPT ![idx - 1] = Append(@, Raised)]
    /\ IF recog[idx - 1] = << >> THEN UNCHANGED << pc, outcome >> ELSE Raise
    /\ UNCHANGED << ctl, engines, probe, engine, segment_len, dur, route, ws, nseg,
                    idx, merged, files, poolvars >>

\* model.transcribe raises inside the loop
SegTranscribeFail ==
    /\ pc = "seg_loop"
    /\ idx <= nseg
    /\ recog' = [recog EXCEPT ![idx - 1] = Append(@, Raised)]
    /\ Raise
    /\ UNCHANGED << ctl, engines, probe, engine, segment_len, dur, route, ws, nseg,
                    idx, merged, files, poolvars >>

\* after the loop: tmpdir = dirname(segment_paths[0]) if segment_paths
\* else None; rm -rf only if tmpdir
SegCleanup ==
    /\ pc = "seg_loop"
    /\ idx > nseg
    /\ ws' = IF nseg > 0 THEN "deleted" ELSE ws
    /\ pc' = "w_txt"
    /\ UNCHANGED << ctl, engines, probe, engine, segment_len, outcome, dur, route,
                    nseg, idx, merged, recog, files, poolvars >>

\* rm exits non-zero (check=True)
SegCleanupFail ==
    /\ pc = "seg_loop"
    /\ idx > nseg
    /\ nseg > 0
    /\ Raise
    /\ UNCHANGED << ctl, engines, probe, engine, segment_len, dur, route, ws, nseg,
                    idx, merged, recog, files, poolvars >>

\* ---- _split_audio ----
\* makedirs creates the workspace, ffmpeg writes n chunk files, the sorted
\* glob returns them; transcribe_parallel numbers them with enumerate
SplitAudio ==
    /\ pc = "par_split"
    /\ ws' = "exists"
    /\ \E n \in 0 .. MaxSegs : nseg' = n
    /\ pc' = "par_pool"
    /\ split_len' = CHUNK_LEN
    /\ UNCHANGED << ctl, engines, probe, whole, segment_len, outcome, dur, route, idx,
                    merged, recog, files, poolvars >>

SplitAudioFail ==
    /\ pc = "par_split"
    /\ ws' \in {"none", "exists"}
    /\ Raise
    /\ split_len' \in {split_len, CHUNK_LEN}
    /\ UNCHANGED << ctl, engines, probe, whole, segment_len, dur, route, nseg, idx,
                    merged, recog, files, poolvars >>

\* ---- multiprocessing.Pool as transcribe_parallel uses it ----
\* Pool._map_async: chunksize of the task batches
ChunkSize(n, p) ==
    IF n = 0 THEN 0
    ELSE IF n % (p * 4) # 0 THEN n \div (p * 4) + 1 ELSE n \div (p * 4)

\* Pool._get_tasks: batch b holds the jobs lo .. hi
Tasks(n, cs) ==
    [b \in 1 .. ((n + cs - 1) \div cs) |->
        [lo |-> (b - 1) * cs, hi |-> Min2(b * cs, n) - 1]]

PoolSize(cpu, njobs) == Min2(Min2(MAX_WORKERS, cpu), njobs)

\* Pool(workers, initializer=_init_worker) starts the worker processes;
\* pool.map hands the jobs over as task batches and blocks
PoolMap ==
    /\ pc = "par_pool"
    /\ \E cpu \in 1 .. MaxCpu :
          /\ PoolSize(cpu, nseg) >= 1
          /\ nworkers' = PoolSize(cpu, nseg)
    /\ pool' = "running"
    /\ wst' = [w \in Workers |->
                 IF w <= nworkers' THEN [IdleWorker EXCEPT !.st = "starting"]
                 ELSE IdleWorker]
    /\ taskq' = Tasks(nseg, ChunkSize(nseg, nworkers'))
    /\ number_left' = Len(taskq')
    /\ success' = TRUE
    /\ pc' = "par_map"
    /\ UNCHANGED << ctl, engines, probe, engine, segment_len, outcome, dur, route, ws,
                    nseg, idx, merged, recog, files, value, inverted >>

\* Pool(0): ValueError("Number of processes must be at least 1")
PoolFail ==
    /\ pc = "par_pool"
    /\ \E cpu \in 1 .. MaxCpu : PoolSize(cpu, nseg) < 1
    /\ Raise
    /\ UNCHANGED << ctl, engines, probe, engine, segment_len, dur, route, ws, nseg,
                    idx, merged, recog, files, poolvars >>

\* ---- _init_worker: runs once in each worker process when it starts ----
\* mutant: the initializer does not load an engine
InitWorker_noload(w) ==
    /\ pool = "running"
    /\ wst[w].st = "starting"
    /\ wst' = [wst EXCEPT ![w].st = "idle"]
    /\ UNCHANGED << ctl, engines, probe, engine, segment_len, pc, outcome, dur,
                    route, ws, nseg, idx, merged, recog, files, pool,
                    nworkers, taskq, value, number_left, success, inverted >>

InitWorker(w) ==
    /\ pool = "running"
    /\ wst[w].st = "starting"
    /\ wst' = [wst EXCEPT ![w].st = "idle"]
    /\ model' = [model EXCEPT ![w] = w]
    /\ UNCHANGED << ctl, took, foreign, probe, engine, segment_len, pc, outcome, dur, route,
                    ws, nseg, idx, merged, recog, files, pool, nworkers,
                    taskq, value, number_left, success, inverted >>

\* a worker takes the next task batch from the queue
WorkerTake(w) ==
    /\ pool = "running"
    /\ wst[w].st = "idle"
    /\ taskq # << >>
    /\ wst' = [wst EXCEPT ![w] = [st |-> "busy", lo |-> Head(taskq).lo,
                                  hi |-> Head(taskq).hi,
                                  cur |-> Head(taskq).lo, acc |-> << >>]]
    /\ taskq' = Tail(taskq)
    /\ took' = took \cup {w}
    /\ UNCHANGED << ctl, model, foreign, probe, engine, segment_len, pc, outcome, dur, route,
                    ws, nseg, idx, merged, recog, files, pool, nworkers,
                    value, number_left, success, inverted >>

\* ---- _transcribe_chunk ----
ChunkOffset(i) == i * CHUNK_LEN * Sec

_transcribe_chunk(r, i) == [chunks |-> Shift(r, ChunkOffset(i))]

\* mutant: results are stored in the order they arrive
SetValue_arrival(val, lo, acc) ==
    LET n == Cardinality({j \in SegIdx : val[j].done})
    IN [j \in SegIdx |->
           IF j >= n /\ j < n + Len(acc)
           THEN [chunks |-> acc[j - n + 1].chunks, done |-> TRUE]
           ELSE val[j]]

\* MapResult._set for a batch that succeeded
SetValue(val, lo, acc) ==
    [j \in SegIdx |->
        IF j >= lo /\ j < lo + Len(acc)
        THEN [chunks |-> acc[j - lo + 1].chunks, done |-> TRUE]
        ELSE val[j]]

\* a worker runs _transcribe_chunk on the current job of its batch; with the
\* last job of the batch the batch's results reach the MapResult
WorkerTranscribe(w) ==
    /\ pool = "running"
    /\ wst[w].st = "busy"
    /\ \E r \in EngineResults :
          LET i == wst[w].cur
              acc == Append(wst[w].acc, _transcribe_chunk(r, i))
          IN /\ recog' = [recog EXCEPT ![i] = Append(@, r)]
             /\ inverted' = (inverted \/ \E j \in 0 .. i - 1 : recog[j] = << >>)
             /\ IF i = wst[w].hi
                THEN /\ wst' = [wst EXCEPT
                                 ![w] = [IdleWorker EXCEPT !.st = "idle"]]
                     /\ number_left' = number_left - 1
                     /\ value' = IF success THEN SetValue(value, wst[w].lo, acc)
                                 ELSE value
                ELSE /\ wst' = [wst EXCEPT ![w].cur = i + 1, ![w].acc = acc]
                     /\ UNCHANGED << number_left, value >>
    /\ foreign' = (foreign \/ model[w] # w)
    /\ UNCHANGED << ctl, model, took, probe, engine, segment_len, pc, outcome, dur, route,
                    ws, nseg, idx, merged, files, pool, nworkers, taskq,
                    success >>

\* model.transcribe raises in a worker: the batch fails, the worker goes on
WorkerTranscribeFail(w) ==
    /\ pool = "running"
    /\ wst[w].st = "busy"
    /\ recog' = [recog EXCEPT ![wst[w].cur] = Append(@, Raised)]
    /\ wst' = [wst EXCEPT ![w] = [IdleWorker EXCEPT !.st = "idle"]]
    /\ number_left' = number_left - 1
    /\ success' = FALSE
    /\ UNCHANGED << ctl, engines, probe, engine, segment_len, pc, outcome, dur, route,
                    ws, nseg, idx, merged, files, pool, nworkers, taskq,
                    value, inverted >>

Terminated ==
    [w \in Workers |->
        IF wst[w].st = "off" THEN wst[w]
        ELSE [wst[w] EXCEPT !.st = "terminated"]]

\* mutant: the results that did arrive are used although a worker raised
MapReturn_salvage ==
    /\ pc = "par_map"
    /\ number_left = 0
    /\ pool' = "terminated"
    /\ wst' = Terminated
    /\ pc' = "par_merge"
    /\ UNCHANGED << ctl, engines, probe, engine, segment_len, outcome, dur, route, ws,
                    nseg, idx, merged, recog, files, nworkers, taskq, value,
                    number_left, success, inverted >>

\* mutant: the orchestrator does not wait for the outstanding batches
MapReturn_early ==
    /\ pc = "par_map"
    /\ success
    /\ pool' = "terminated"
    /\ wst' = Terminated
    /\ pc' = "par_merge"
    /\ UNCHANGED << ctl, engines, probe, engine, segment_len, outcome, dur, route, ws,
                    nseg, idx, merged, recog, files, nworkers, taskq, value,
                    number_left, success, inverted >>

\* ---- transcribe_parallel ----
\* pool.map returns the results in job order once every batch is done;
\* leaving the with block terminates the pool
MapReturn ==
    /\ pc = "par_map"
    /\ number_left = 0
    /\ success
    /\ pool' = "terminated"
    /\ wst' = Terminated
    /\ pc' = "par_merge"
    /\ UNCHANGED << ctl, engines, probe, engine, segment_len, outcome, dur, route, ws,
                    nseg, idx, merged, recog, files, nworkers, taskq, value,
                    number_left, success, inverted >>

\* pool.map re-raises the first exception of a worker once every batch is
\* done; leaving the with block terminates the pool
MapRaise ==
    /\ pc = "par_map"
    /\ number_left = 0
    /\ ~success
    /\ pool' = "terminated"
    /\ wst' = Terminated
    /\ Raise
    /\ UNCHANGED << ctl, engines, probe, engine, segment_len, dur, route, ws, nseg,
                    idx, merged, recog, files, nworkers, taskq, value,
                    number_left, success, inverted >>

\* chunks of the results lo .. hi - 1 in list order
RECURSIVE Extend(_, _, _)
Extend(results, lo, hi) ==
    IF lo >= hi THEN << >>
    ELSE results[lo].chunks \o Extend(results, lo + 1, hi)

\* merged = {"chunks": []}; for r in results: extend
ParMerge ==
    /\ pc = "par_merge"
    /\ merged' = [chunks |-> Extend(value, 0, nseg)]
    /\ pc' = "par_cleanup"
    /\ UNCHANGED << ctl, engines, probe, engine, segment_len, outcome, dur, route, ws,
                    nseg, idx, recog, files, poolvars >>

\* rm -rf tmp
ParCleanup ==
    /\ pc = "par_cleanup"
    /\ ws' = "deleted"
    /\ pc' = "w_txt"
    /\ UNCHANGED << ctl, engines, probe, engine, segment_len, outcome, dur, route,
                    nseg, idx, merged, recog, files, poolvars >>

ParCleanupFail ==
    /\ pc = "par_cleanup"
    /\ Raise
    /\ UNCHANGED << ctl, engines, probe, engine, segment_len, dur, route, ws, nseg,
                    idx, merged, recog, files, poolvars >>

Next ==
    \/ GetDuration
    \/ GetDurationMissing
    \/ GetDurationFail
    \/ TranscribeAuto
    \/ TranscribeFast
    \/ TranscribeFastFail
    \/ WriteTxt
    \/ WriteTxtFail
    \/ WriteSrt
    \/ WriteSrtFail
    \/ SegmentAudioFile
    \/ SegmentAudioFileFail
    \/ SegTranscribe
    \/ SegTranscribeFail
    \/ SegCleanup
    \/ SegCleanupFail
    \/ SplitAudio
    \/ SplitAudioFail
    \/ PoolMap
    \/ PoolFail
    \/ \E w \in Workers : InitWorker(w)
    \/ \E w \in Workers : WorkerTake(w)
    \/ \E w \in Workers : WorkerTranscribe(w)
    \/ \E w \in Workers : WorkerTranscribeFail(w)
    \/ MapReturn
    \/ MapRaise
    \/ ParMerge
    \/ ParCleanup
    \/ ParCleanupFail

Spec == Init /\ [][Next]_vars

\* ---- properties ----

\* the result the engine returned for segment i (its first and only call)
TheResult(i) == recog[i][1]
Count(i) == IF recog[i] = << >> THEN 0 ELSE Len(TheResult(i).segments)

\* number of spans recognized in the segments before segment i
RECURSIVE Base(_)
Base(i) == IF i = 0 THEN 0 ELSE Base(i - 1) + Count(i - 1)

Segmenting == route \in {"SEGMENTED", "PARALLEL"}
Returned == outcome = "returned"
Exited == outcome # "running"
SomeCallRaised ==
    \E i \in SegIdx : \E k \in 1 .. Len(recog[i]) : recog[i][k] = Raised

SpansOrdered(r) ==
    \A k \in 1 .. Len(r.segments) - 1 :
        r.segments[k].start <= r.segments[k + 1].start

SpansWithin(r, len) ==
    \A k \in 1 .. Len(r.segments) :
        /\ 0 <= r.segments[k].start
        /\ r.segments[k].start <= len * Sec
        /\ 0 <= r.segments[k].end
        /\ r.segments[k].end <= len * Sec

SortedByStart(chunks) ==
    \A k \in 1 .. Len(chunks) - 1 : chunks[k].start <= chunks[k + 1].start

\* transcribe_parallel has merged the results of pool.map
ParMerged ==
    /\ route = "PARALLEL"
    /\ \/ pc \in {"par_cleanup", "w_txt", "w_srt"}
       \/ pc = "done" /\ pool = "terminated" /\ success

\* C1: transcribe_auto routes FAST (one whole-file call, no split) exactly
\* when dur <= threshold, SEGMENTED (split, no whole-file call) exactly when
\* dur > threshold; the boundary dur = threshold is FAST
C1_RouteByDuration ==
    (entry = "auto" /\ route # "NONE") =>
        /\ dur <= threshold =>
              /\ route = "FAST"
              /\ nseg = -1 /\ ws = "none" /\ split_len = 0
              /\ Len(whole) <= 1
              /\ pc \in {"w_txt", "w_srt"} \/ Returned => Len(whole) = 1
        /\ dur > threshold =>
              /\ route = "SEGMENTED"
              /\ whole = << >>
              /\ split_len \in {0, SEGMENT_LEN}
              /\ nseg >= 0 => split_len = SEGMENT_LEN

C1_Witness ==
    /\ entry = "auto"
    /\ dur = threshold
    /\ threshold = FAST_THRESHOLD * Sec
    /\ route = "FAST"
    /\ Returned
    /\ Len(whole) = 1

\* C2: in the PARALLEL route, whatever the physical order in which the
\* workers' calls return, the merged chunks are in segment-index order (the
\* chunks of segment i lie in its time window) and sorted by start, when each
\* segment's spans are ordered by start and lie within [0, CHUNK_LEN]
C2_ParallelOrder ==
    (/\ ParMerged
     /\ \A i \in 0 .. nseg - 1 :
           SpansOrdered(TheResult(i)) /\ SpansWithin(TheResult(i), CHUNK_LEN))
    =>
        /\ SortedByStart(merged.chunks)
        /\ Len(merged.chunks) = Base(nseg)
        /\ \A i \in 0 .. nseg - 1 : \A k \in 1 .. Count(i) :
              /\ merged.chunks[Base(i) + k].start >= i * CHUNK_LEN * Sec
              /\ merged.chunks[Base(i) + k].end <= (i + 1) * CHUNK_LEN * Sec

\* two segments with spans, the later segment's call returned first
C2_Witness ==
    /\ ParMerged
    /\ Returned
    /\ nseg >= 2
    /\ \A i \in 0 .. nseg - 1 :
          SpansOrdered(TheResult(i)) /\ SpansWithin(TheResult(i), CHUNK_LEN)
    /\ Count(0) > 0 /\ Count(1) > 0
    /\ inverted

\* C3: every chunk made from the segment with 0-based index i has
\* start = span.start + i*L and end = span.end + i*L, hence start >= i*L for
\* span.start >= 0, where L is the length that was given to the splitter
C3_Step ==
    /\ (route = "SEGMENTED" /\ pc = "seg_loop" /\ idx' = idx + 1) =>
          LET i == idx - 1
              r == recog'[i][Len(recog'[i])]
              n == Len(merged.chunks)
          IN /\ Len(merged'.chunks) = n + Len(r.segments)
             /\ \A k \in 1 .. Len(r.segments) :
                   /\ merged'.chunks[n + k].start
                         = r.segments[k].start + i * split_len * Sec
                   /\ merged'.chunks[n + k].end
                         = r.segments[k].end + i * split_len * Sec
                   /\ r.segments[k].start >= 0 =>
                         merged'.chunks[n + k].start >= i * split_len * Sec
    /\ \A i \in SegIdx :
          (route = "PARALLEL" /\ ~value[i].done /\ value'[i].done) =>
             LET r == recog'[i][Len(recog'[i])]
             IN /\ Len(value'[i].chunks) = Len(r.segments)
                /\ split_len = CHUNK_LEN
                /\ \A k \in 1 .. Len(r.segments) :
                      /\ value'[i].chunks[k].start
                            = r.segments[k].start + i * split_len * Sec
                      /\ value'[i].chunks[k].end
                            = r.segments[k].end + i * split_len * Sec
                      /\ r.segments[k].start >= 0 =>
                            value'[i].chunks[k].start >= i * split_len * Sec

C3_Offset == [][C3_Step]_vars

\* the third segment of a SEGMENTED run has produced chunks
C3_Witness ==
    /\ route = "SEGMENTED"
    /\ idx > 3
    /\ Count(2) > 0
    /\ merged.chunks[Len(merged.chunks)].start >= 2 * split_len * Sec

\* C4: the merged chunks of a SEGMENTED or PARALLEL run are exactly the
\* recognized spans, one chunk per span, by segment index and then by position
\* in the segment; 3 segments of length 100 with the span {1.0, 2.0, "hello"}
\* each give starts 1, 101, 201 and ends 2, 102, 202
C4_OneChunkPerSpan ==
    (Segmenting /\ Returned) =>
        /\ Len(merged.chunks) = Base(nseg)
        /\ \A i \in 0 .. nseg - 1 : \A k \in 1 .. Count(i) :
              merged.chunks[Base(i) + k]
                 = [start |-> TheResult(i).segments[k].start
                                 + i * split_len * Sec,
                    end |-> TheResult(i).segments[k].end
                               + i * split_len * Sec,
                    text |-> Strip(TheResult(i).segments[k].text)]

Hello == [text |-> <<" ", "hello">>,
          segments |-> << Span(1 * Sec, 2 * Sec, <<" ", "hello">>) >>]

C4_Witness ==
    /\ route = "SEGMENTED"
    /\ Returned
    /\ split_len = 100
    /\ nseg = 3
    /\ \A i \in 0 .. 2 : recog[i] = << Hello >>
    /\ merged.chunks = << Span(1 * Sec, 2 * Sec, <<"hello">>),
                          Span(101 * Sec, 102 * Sec, <<"hello">>),
                          Span(201 * Sec, 202 * Sec, <<"hello">>) >>

\* the worker processes and the orchestrator are scheduled and every
\* recognition call ends (it returns or raises)
FairSpec ==
    /\ Spec
    /\ \A w \in Workers :
          /\ WF_vars(InitWorker(w))
          /\ WF_vars(WorkerTake(w))
          /\ WF_vars(WorkerTranscribe(w) \/ WorkerTranscribeFail(w))
    /\ WF_vars(MapReturn)

Untouched(f) == f.st \in {"absent", "old"}

\* C5: a run is all-or-nothing: it ends either returned with both artifacts
\* written from the merged transcript, or failed with neither artifact
\* written or changed
C5_AllOrNothing ==
    Exited =>
        \/ /\ Returned
           /\ txt = [st |-> "written", body |-> TxtBody(merged)]
           /\ srt = [st |-> "written", body |-> SrtBody(merged)]
        \/ /\ outcome = "raised"
           /\ Untouched(txt)
           /\ Untouched(srt)

\* C6: when a SEGMENTED or PARALLEL route function exits, normally or by a
\* recognition call that raised, after it created its workspace, the
\* workspace has been deleted
C6_WorkspaceDeleted ==
    (/\ Segmenting
     /\ ws # "none"
     /\ Returned \/ (outcome = "raised" /\ SomeCallRaised))
    => ws = "deleted"

\* C7: in the PARALLEL route a recognition call that raises in any worker
\* makes transcribe_parallel fail: nothing is merged, no artifact is written,
\* nothing is returned, and once the function has exited the pool is
\* terminated and no worker runs or takes a job
C7_State ==
    (route = "PARALLEL" /\ SomeCallRaised) =>
        /\ ~Returned
        /\ merged = [chunks |-> << >>]
        /\ Untouched(txt) /\ Untouched(srt)
        /\ Exited =>
              /\ outcome = "raised"
              /\ pool = "terminated"
              /\ \A w \in Workers : wst[w].st \in {"off", "terminated"}

C7_Step ==
    pool = "terminated" => recog' = recog /\ wst' = wst /\ taskq' = taskq

C7_WorkerFailureAborts == []C7_State /\ [][C7_Step]_vars

\* one call raised, another worker's call returned spans
C7_Witness ==
    /\ route = "PARALLEL"
    /\ outcome = "raised"
    /\ pool = "terminated"
    /\ recog[0] = << Raised >>
    /\ recog[1] # << >> /\ recog[1] # << Raised >> /\ Count(1) > 0

\* C8: every route that returns successfully returns a record with the
\* fields text and chunks, each chunk with exactly start, end and text
C8_Shape ==
    Returned =>
        /\ DOMAIN merged = {"text", "chunks"}
        /\ \A k \in 1 .. Len(merged.chunks) :
              DOMAIN merged.chunks[k] = {"start", "end", "text"}

AllCollected ==
    \A i \in 0 .. nseg - 1 : value[i].done /\ Len(recog[i]) = 1

C9_State ==
    (/\ route = "PARALLEL"
     /\ pc \in {"par_merge", "par_cleanup", "w_txt", "w_srt"} \/ Returned)
    => AllCollected /\ number_left = 0 /\ taskq = << >>

\* C9: in the PARALLEL route, unless a recognition call raises, every job
\* is eventually processed and its result collected, and merging, cleanup and
\* artifact writing start only after the results of all jobs are collected
C9_AllCollectedFirst ==
    /\ []C9_State
    /\ (pc = "par_map")
          ~> (SomeCallRaised \/ (AllCollected /\ pc = "par_merge"))

C9_Witness ==
    /\ route = "PARALLEL"
    /\ pc = "par_merge"
    /\ nseg >= 3
    /\ nworkers >= 2
    /\ AllCollected
    /\ inverted

\* C10: in the SEGMENTED and PARALLEL routes each segment is passed to the
\* engine at most once, exactly once in a run that returns; after a failed
\* call or a failed external tool no call is repeated
C10_AtMostOnce ==
    Segmenting =>
        /\ whole = << >>
        /\ \A i \in SegIdx :
              /\ Len(recog[i]) <= 1
              /\ i >= nseg => recog[i] = << >>
              /\ (route = "SEGMENTED" /\ recog[i] = << Raised >>) =>
                    /\ outcome = "raised"
                    /\ \A j \in SegIdx : j > i => recog[j] = << >>
        /\ Returned =>
              \A i \in 0 .. nseg - 1 :
                  Len(recog[i]) = 1 /\ recog[i] # << Raised >>

\* the second of three segments failed: the first was called once, the
\* third never
C10_Witness ==
    /\ route = "SEGMENTED"
    /\ outcome = "raised"
    /\ nseg = 3
    /\ Len(recog[0]) = 1
    /\ recog[1] = << Raised >>
    /\ recog[2] = << >>
\* C16: when ffprobe exits 0 and its output has no duration field or one
\* that is not numeric, get_duration returns 0.0 and transcribe_auto routes
\* FAST (all thresholds of the model are non-negative)
C16_LenientFallback ==
    probe \in {"missing", "nonnumeric"} =>
        /\ outcome # "raised" \/ route = "FAST"
        /\ dur = 0
        /\ route # "NONE" => route = "FAST"

\* C17 as stated: a non-zero exit of ffprobe is tolerated, get_duration
\* yields 0.0 and the run continues on the FAST route
C17_NonZeroTolerated ==
    probe = "nonzero" =>
        /\ dur = 0
        /\ pc = "done" => route = "FAST"

\* C17 amended: a non-zero exit of ffprobe makes get_duration raise; the
\* exception leaves transcribe_auto, no route is taken, the engine is never
\* called and no artifact is written
C17_NonZeroAborts ==
    probe = "nonzero" =>
        /\ outcome = "raised"
        /\ dur = -1
        /\ route = "NONE"
        /\ whole = << >> /\ nseg = -1 /\ ws = "none"
        /\ Untouched(txt) /\ Untouched(srt)

C17_Witness ==
    /\ entry = "auto"
    /\ probe = "nonzero"
    /\ pc = "done"
    /\ threshold = FAST_THRESHOLD * Sec
PoolWorkers == {w \in Workers : w <= nworkers}

\* C18 as stated: a worker loads its engine lazily on its first job, so a
\* worker that never received a job has loaded none; every call uses the
\* worker's own instance and no instance is shared
C18_LazyEngine ==
    /\ \A w \in Workers : (model[w] # 0) => w \in took
    /\ \A w \in Workers : model[w] \in {0, w}
    /\ ~foreign

\* C18 amended: each pool worker loads its own engine once when the worker
\* process starts (the pool initializer), before it is handed any job and
\* whether or not it ever gets one; every recognition call of a worker uses
\* that worker's own instance and no instance is used by two workers
C18_EagerOwnEngine ==
    /\ \A w \in Workers :
          /\ wst[w].st \in {"idle", "busy"} => model[w] = w
          /\ w \in took => model[w] = w
          /\ model[w] \in {0, w}
          /\ w \notin PoolWorkers => model[w] = 0 /\ w \notin took
    /\ ~foreign

\* the run returned; one worker loaded an engine and never got a job, the
\* other did all the jobs
C18_Witness ==
    /\ route = "PARALLEL"
    /\ Returned
    /\ nseg >= 2
    /\ \E w \in PoolWorkers : model[w] = w /\ w \notin took
    /\ \E w \in PoolWorkers : model[w] = w /\ w \in took
GapOf(chunks, k) ==
    chunks[k].start - (IF k = 1 THEN 0 ELSE chunks[k - 1].end)

\* C11: the gap reported for chunk k is its start minus the end of chunk k-1
\* (minus 0.0 for the first chunk), in chunk index order; the debug header
\* line and the SILENCE field of the transcript line of chunk k show the same
\* value; chunks {0,2},{5,6} give 0.00 and 3.00
C11_SilenceGaps ==
    txt.st = "written" =>
        LET c == merged.chunks
            n == Len(merged.chunks)
        IN  /\ Len(txt.body) = 2 * n
            /\ \A k \in 1 .. n :
                  /\ txt.body[k].kind = "debug"
                  /\ txt.body[k].idx = k - 1
                  /\ txt.body[k].gap = Fmt2(GapOf(c, k))
                  /\ txt.body[n + k].kind = "line"
                  /\ txt.body[n + k].silence = txt.body[k].gap
            /\ (n = 2 /\ c[1].start = 0 /\ c[1].end = 2 * Sec
                      /\ c[2].start = 5 * Sec)
                  => txt.body[1].gap = 0 /\ txt.body[2].gap = 300

\* the writer wrote the .txt of the chunks {0,2},{5,6}
C11_Witness ==
    /\ entry = "writer"
    /\ txt.st = "written"
    /\ Len(merged.chunks) = 2
    /\ merged.chunks[1].end = 2 * Sec
    /\ merged.chunks[2].start = 5 * Sec
    /\ txt.body[2].gap = 300
    /\ txt.body[4].silence = 300

\* C14: when the writer has returned again on the same arguments, both
\* artifacts have exactly the content the first completed run left, which is
\* the rendering of the merged transcript whatever was there before
C14_Idempotent ==
    (entry = "writer" /\ Returned) =>
        /\ txt = [st |-> "written", body |-> TxtBody(merged)]
        /\ srt = [st |-> "written", body |-> SrtBody(merged)]
        /\ snap # NoSnap => txt = snap.txt /\ srt = snap.srt

\* a second run returned on a two-chunk transcript after a first run that
\* returned
C14_Witness ==
    /\ entry = "writer"
    /\ Returned
    /\ rerun >= 1
    /\ snap # NoSnap
    /\ Len(merged.chunks) = 2
    /\ Len(txt.body) = 4
    /\ Len(srt.body) = 2
\* round(x) of Python on the fraction of t in milliseconds: nearest, ties to
\* the even neighbour
RoundMs(t) ==
    LET f == t % Sec
        q == (f * 1000) \div Sec
        r == (f * 1000) % Sec
    IN  IF 2 * r < Sec THEN q
        ELSE IF 2 * r > Sec THEN q + 1
        ELSE IF q % 2 = 0 THEN q ELSE q + 1

\* C12: the timestamp of t has hours floor(t/3600), minutes
\* floor((t mod 3600)/60), seconds floor(t mod 60) and milliseconds
\* round((t - floor(t)) * 1000), rounded to the nearest, not truncated
C12_RoundedMillis ==
    (fn = "fmt" /\ applied) =>
        /\ res.h = arg \div (3600 * Sec)
        /\ res.m = (arg % (3600 * Sec)) \div (60 * Sec)
        /\ res.s = (arg % (60 * Sec)) \div Sec
        /\ res.ms = RoundMs(arg)

RECURSIVE NumDigits(_)
NumDigits(n) == IF n < 10 THEN 1 ELSE 1 + NumDigits(n \div 10)

\* the length of f"{n:0wd}" for n >= 0
PadLen(n, w) == IF NumDigits(n) > w THEN NumDigits(n) ELSE w

\* the length of f"{h:02d}:{m:02d}:{s:02d},{ms:03d}"
StampLen(r) == PadLen(r.h, 2) + PadLen(r.m, 2) + PadLen(r.s, 2)
               + PadLen(r.ms, 3) + 3

\* C13: below 100 hours the timestamp has minutes and seconds in 0..59 and
\* milliseconds in 0..999 and so the fixed width of HH:MM:SS,mmm, also within
\* half a millisecond of the next second (59.9995 s, 3599.999 s)
C13_FieldsInRange ==
    (fn = "fmt" /\ applied /\ arg >= 0 /\ arg \div Sec < 100 * 3600) =>
        /\ res.h \in 0 .. 99
        /\ res.m \in 0 .. 59
        /\ res.s \in 0 .. 59
        /\ res.ms \in 0 .. 999
        /\ StampLen(res) = 12
        /\ arg = 59 * Sec + 9995 =>
              res = [h |-> 0, m |-> 0, s |-> 59, ms |-> 999]
        /\ arg \in (3599 * Sec + 9985) .. (3599 * Sec + 9999) =>
              res.h = 0 /\ res.m = 59 /\ res.s = 59 /\ res.ms < 1000

\* _fmt_srt returned for t = 59.9995 s
C13_Witness ==
    /\ fn = "fmt"
    /\ applied
    /\ arg = 59 * Sec + 9995
    /\ res.s = 59
    /\ res.ms = 999
\* C15: the base of transcripts/<base>.txt and .srt is the file name without
\* its extension and with every space replaced by an underscore, the same
\* base main.py uses for the analysis and summary files
C15_SameBase ==
    (fn = "base" /\ applied) =>
        /\ res.writer = res.main
        /\ \A k \in 1 .. Len(res.writer) : res.writer[k] # " "

\* C19: the path at position k of the sorted list is the segment the
\* splitter numbered k, for every number of segments
C19_SortedIsChronological ==
    (fn = "sorted" /\ applied) =>
        \A k \in 1 .. arg : res[k] = SegName(k - 1)
\* C20: one invocation of the entry point runs transcription, analysis,
\* summary and the two visualizations exactly once each: when it ends and no
\* step failed, no step was executed a second time and no artifact was
\* written twice
C20_EachStepOnce ==
    step = "exit_ok" =>
        \A st \in StepNames : ran[st] = 1 /\ wrote[st] = 1
====
